---- MODULE Spec2Model ----
(***************************************************************************)
(* The css selector builder of src/05-objects-tasks.js: class Selector,    *)
(* the cssSelectorBuilder facade and the objects returned by combine.      *)
(*                                                                         *)
(* The state is the heap of objects the facade has created, in creation    *)
(* order, together with the last call made and what it returned or threw.  *)
(* A reference to an object is its position in the heap.                   *)
(***************************************************************************)
EXTENDS Integers, Sequences, FiniteSets, TLC

\* Inputs of the calls. A kind that may repeat inside one selector is called
\* with two different values, so that the order of equal kinds is observable.
ValuesOf(selector) ==
  IF selector \in {"class", "attr", "pseudoClass"} THEN {"a", "b"} ELSE {"a"}

Combinators == {"+", "~"}

\* The heap holds at most MaxSize stored parts and combined objects together.
MaxSize == 3

VARIABLES heap, call, ret

vars == <<heap, call, ret>>

-----------------------------------------------------------------------------
\* Error messages thrown by Selector.check.
DuplicateError == "Element, id and pseudo-element should not occur more then one time inside the selector"

OrderError == "Selector parts should be arranged in the following order: element, id, class, attribute, pseudo-class, pseudo-element"

\* What `undefined.selector` throws when at(-1) finds no element.
TypeError == "TypeError: Cannot read properties of undefined"

selectorsOrder == <<"element", "id", "class", "attr", "pseudoClass", "pseudoElement">>

Kinds == {selectorsOrder[i] : i \in 1..Len(selectorsOrder)}

\* Array.prototype.indexOf: 0-based position of the first match, or -1.
indexOf(arr, x) ==
  IF \E i \in 1..Len(arr) : arr[i] = x
  THEN (CHOOSE i \in 1..Len(arr) : arr[i] = x /\ \A j \in 1..(i - 1) : arr[j] # x) - 1
  ELSE -1

\* The object literal { selector, value } stored for one part.
Part(selector, value) == [selector |-> selector, value |-> value]

\* A constructor that starts from an empty array and drops obj.
NewSelectorEmpty(obj) == [cls |-> "Selector", selectorsStorage |-> <<>>]

\* new Selector(obj)
NewSelector(obj) == [cls |-> "Selector", selectorsStorage |-> <<obj>>]

\* Format with the pseudo-element prefix of a pseudo-class and the closing
\* bracket of an attribute left out.
FormatSlip(item) ==
  CASE item.selector = "id" -> "#" \o item.value
    [] item.selector = "class" -> "." \o item.value
    [] item.selector = "attr" -> "[" \o item.value
    [] item.selector = "pseudoClass" -> ":" \o item.value
    [] item.selector = "pseudoElement" -> ":" \o item.value
    [] OTHER -> item.value

\* The text one stored item adds to the string in Selector.stringify.
Format(item) ==
  CASE item.selector = "id" -> "#" \o item.value
    [] item.selector = "class" -> "." \o item.value
    [] item.selector = "attr" -> "[" \o item.value \o "]"
    [] item.selector = "pseudoClass" -> ":" \o item.value
    [] item.selector = "pseudoElement" -> "::" \o item.value
    [] OTHER -> item.value

\* Selector.stringify: forEach over selectorsStorage, appending to string.
RECURSIVE SelectorStringify(_)
SelectorStringify(storage) ==
  IF Len(storage) = 0 THEN ""
  ELSE SelectorStringify(SubSeq(storage, 1, Len(storage) - 1)) \o Format(storage[Len(storage)])

\* check with the ordering test comparing by <= instead of <.
CheckStrict(storage, selector) ==
  IF /\ selector \in {"element", "id", "pseudoElement"}
     /\ Len(SelectSeq(storage, LAMBDA item : item.selector = selector)) > 0
  THEN DuplicateError
  ELSE IF Len(storage) = 0 THEN TypeError
  ELSE IF indexOf(selectorsOrder, selector) <= indexOf(selectorsOrder, storage[Len(storage)].selector)
       THEN OrderError
       ELSE "ok"

\* check without its uniqueness test.
CheckOrderOnly(storage, selector) ==
  IF Len(storage) = 0 THEN TypeError
  ELSE IF indexOf(selectorsOrder, selector) < indexOf(selectorsOrder, storage[Len(storage)].selector)
       THEN OrderError
       ELSE "ok"

\* check without its ordering test.
CheckUniqueOnly(storage, selector) ==
  IF /\ selector \in {"element", "id", "pseudoElement"}
     /\ Len(SelectSeq(storage, LAMBDA item : item.selector = selector)) > 0
  THEN DuplicateError
  ELSE "ok"

\* check with the ordering test run before the uniqueness test.
CheckOrderFirst(storage, selector) ==
  IF Len(storage) = 0 THEN TypeError
  ELSE IF indexOf(selectorsOrder, selector) < indexOf(selectorsOrder, storage[Len(storage)].selector)
       THEN OrderError
       ELSE IF /\ selector \in {"element", "id", "pseudoElement"}
               /\ Len(SelectSeq(storage, LAMBDA item : item.selector = selector)) > 0
            THEN DuplicateError
            ELSE "ok"

\* Selector.check: "ok" when it returns, else the message of the error thrown.
Check(storage, selector) ==
  IF /\ selector \in {"element", "id", "pseudoElement"}
     /\ Len(SelectSeq(storage, LAMBDA item : item.selector = selector)) > 0
  THEN DuplicateError
  ELSE IF Len(storage) = 0 THEN TypeError
  ELSE LET lastElem == storage[Len(storage)].selector
       IN  IF indexOf(selectorsOrder, selector) < indexOf(selectorsOrder, lastElem)
           THEN OrderError
           ELSE "ok"

\* stringify of a combined object without the spaces around the combinator.
RECURSIVE StringifyTight(_, _)
StringifyTight(h, i) ==
  IF h[i].cls = "Selector"
  THEN SelectorStringify(h[i].selectorsStorage)
  ELSE StringifyTight(h, h[i].selector1) \o h[i].combinator \o StringifyTight(h, h[i].selector2)

\* stringify() of the object at reference i: a Selector renders its storage,
\* a combined object renders the two objects its closure captured.
RECURSIVE Stringify(_, _)
Stringify(h, i) ==
  IF h[i].cls = "Selector"
  THEN SelectorStringify(h[i].selectorsStorage)
  ELSE Stringify(h, h[i].selector1) \o " " \o h[i].combinator \o " " \o Stringify(h, h[i].selector2)

-----------------------------------------------------------------------------
\* Records of the last call (receiver class, method, receiver, arguments) and
\* of its outcome.
Call(on, method, this, args) == [on |-> on, method |-> method, this |-> this, args |-> args]

Returned(type, ref, str) == [type |-> type, ref |-> ref, str |-> str]

Thrown(message) == [type |-> "error", ref |-> 0, str |-> message]

Refs == 1..Len(heap)

SelectorRefs == {i \in Refs : heap[i].cls = "Selector"}

Weight(obj) == IF obj.cls = "Selector" THEN Len(obj.selectorsStorage) ELSE 1

RECURSIVE SizeUpTo(_, _)
SizeUpTo(h, n) == IF n = 0 THEN 0 ELSE SizeUpTo(h, n - 1) + Weight(h[n])

Size(h) == SizeUpTo(h, Len(h))

HasRoom == Size(heap) < MaxSize

Init ==
  /\ heap = <<>>
  /\ call = Call("none", "none", 0, <<>>)
  /\ ret = Returned("none", 0, "")

\* A part-adder that stores an accepted part in front (unshift) instead of
\* at the end (push).
PartAdderUnshift(this, selector, value) ==
  LET storage == heap[this].selectorsStorage
      checked == Check(storage, selector)
  IN  /\ call' = Call("Selector", selector, this, <<value>>)
      /\ IF checked = "ok"
         THEN /\ heap' = [heap EXCEPT ![this].selectorsStorage = <<Part(selector, value)>> \o storage]
              /\ ret' = Returned("object", this, "")
         ELSE /\ heap' = heap
              /\ ret' = Thrown(checked)

\* A part-adder whose storage is one array shared by all Selector instances:
\* an accepted part is pushed to every Selector.
PartAdderShared(this, selector, value) ==
  LET storage == heap[this].selectorsStorage
      checked == Check(storage, selector)
  IN  /\ call' = Call("Selector", selector, this, <<value>>)
      /\ IF checked = "ok"
         THEN /\ heap' = [i \in 1..Len(heap) |->
                           IF heap[i].cls = "Selector"
                           THEN [heap[i] EXCEPT !.selectorsStorage = Append(@, Part(selector, value))]
                           ELSE heap[i]]
              /\ ret' = Returned("object", this, "")
         ELSE /\ heap' = heap
              /\ ret' = Thrown(checked)

\* A part-adder that pushes before it checks: a rejected part stays stored.
PartAdderPushFirst(this, selector, value) ==
  LET storage == heap[this].selectorsStorage
      checked == Check(storage, selector)
  IN  /\ call' = Call("Selector", selector, this, <<value>>)
      /\ heap' = [heap EXCEPT ![this].selectorsStorage = Append(storage, Part(selector, value))]
      /\ ret' = IF checked = "ok" THEN Returned("object", this, "") ELSE Thrown(checked)

\* A part-adder method of Selector: check, then push, then return this.
\* When check throws, the push is not reached.
PartAdder(this, selector, value) ==
  LET storage == heap[this].selectorsStorage
      checked == Check(storage, selector)
  IN  /\ call' = Call("Selector", selector, this, <<value>>)
      /\ IF checked = "ok"
         THEN /\ heap' = [heap EXCEPT ![this].selectorsStorage = Append(storage, Part(selector, value))]
              /\ ret' = Returned("object", this, "")
         ELSE /\ heap' = heap
              /\ ret' = Thrown(checked)

SelectorElement(this, value) == PartAdder(this, "element", value)

SelectorId(this, value) == PartAdder(this, "id", value)

SelectorClass(this, value) == PartAdder(this, "class", value)

SelectorAttr(this, value) == PartAdder(this, "attr", value)

SelectorPseudoClass(this, value) == PartAdder(this, "pseudoClass", value)

SelectorPseudoElement(this, value) == PartAdder(this, "pseudoElement", value)

\* A facade constructor: a new Selector seeded with one part.
Facade(selector, value) ==
  /\ heap' = Append(heap, NewSelector(Part(selector, value)))
  /\ call' = Call("builder", selector, 0, <<value>>)
  /\ ret' = Returned("object", Len(heap) + 1, "")

BuilderElement(value) == Facade("element", value)

BuilderId(value) == Facade("id", value)

BuilderClass(value) == Facade("class", value)

BuilderAttr(value) == Facade("attr", value)

BuilderPseudoClass(value) == Facade("pseudoClass", value)

BuilderPseudoElement(value) == Facade("pseudoElement", value)

\* combine whose returned object renders itself as its right side instead of
\* the second argument.
CombineAliased(selector1, combinator, selector2) ==
  /\ heap' = Append(heap, [cls |-> "Combined", selector1 |-> selector1,
                           combinator |-> combinator, selector2 |-> Len(heap) + 1])
  /\ call' = Call("builder", "combine", 0, <<selector1, combinator, selector2>>)
  /\ ret' = Returned("object", Len(heap) + 1, "")

\* combine that also records the combinator in its left argument.
CombineInPlace(selector1, combinator, selector2) ==
  LET marked == IF heap[selector1].cls = "Selector"
                THEN [heap EXCEPT ![selector1].selectorsStorage =
                        Append(@, Part("combinator", combinator))]
                ELSE heap
  IN  /\ heap' = Append(marked, [cls |-> "Combined", selector1 |-> selector1,
                                 combinator |-> combinator, selector2 |-> selector2])
      /\ call' = Call("builder", "combine", 0, <<selector1, combinator, selector2>>)
      /\ ret' = Returned("object", Len(heap) + 1, "")

\* cssSelectorBuilder.combine: a new object whose stringify closes over the
\* two arguments and the combinator.
Combine(selector1, combinator, selector2) ==
  /\ heap' = Append(heap, [cls |-> "Combined", selector1 |-> selector1,
                           combinator |-> combinator, selector2 |-> selector2])
  /\ call' = Call("builder", "combine", 0, <<selector1, combinator, selector2>>)
  /\ ret' = Returned("object", Len(heap) + 1, "")

\* stringify that consumes the parts of a Selector while rendering them.
StringifyCallDraining(this) ==
  /\ heap' = IF heap[this].cls = "Selector"
             THEN [heap EXCEPT ![this].selectorsStorage = <<>>]
             ELSE heap
  /\ call' = Call(heap[this].cls, "stringify", this, <<>>)
  /\ ret' = Returned("string", 0, Stringify(heap, this))

\* stringify() called on a Selector or on a combined object.
StringifyCall(this) ==
  /\ heap' = heap
  /\ call' = Call(heap[this].cls, "stringify", this, <<>>)
  /\ ret' = Returned("string", 0, Stringify(heap, this))

Next ==
  \/ HasRoom /\ \E value \in ValuesOf("element") : BuilderElement(value)
  \/ HasRoom /\ \E value \in ValuesOf("id") : BuilderId(value)
  \/ HasRoom /\ \E value \in ValuesOf("class") : BuilderClass(value)
  \/ HasRoom /\ \E value \in ValuesOf("attr") : BuilderAttr(value)
  \/ HasRoom /\ \E value \in ValuesOf("pseudoClass") : BuilderPseudoClass(value)
  \/ HasRoom /\ \E value \in ValuesOf("pseudoElement") : BuilderPseudoElement(value)
  \/ HasRoom /\ \E this \in SelectorRefs, value \in ValuesOf("element") : SelectorElement(this, value)
  \/ HasRoom /\ \E this \in SelectorRefs, value \in ValuesOf("id") : SelectorId(this, value)
  \/ HasRoom /\ \E this \in SelectorRefs, value \in ValuesOf("class") : SelectorClass(this, value)
  \/ HasRoom /\ \E this \in SelectorRefs, value \in ValuesOf("attr") : SelectorAttr(this, value)
  \/ HasRoom /\ \E this \in SelectorRefs, value \in ValuesOf("pseudoClass") : SelectorPseudoClass(this, value)
  \/ HasRoom /\ \E this \in SelectorRefs, value \in ValuesOf("pseudoElement") : SelectorPseudoElement(this, value)
  \/ HasRoom /\ \E selector1 \in Refs, selector2 \in Refs, combinator \in Combinators :
       Combine(selector1, combinator, selector2)
  \/ \E this \in Refs : StringifyCall(this)

Spec == Init /\ [][Next]_vars

-----------------------------------------------------------------------------
(***************************************************************************)
(* Vocabulary of the properties. The rank and the token of a kind are      *)
(* written out here as the specification states them, independently of     *)
(* selectorsOrder and Format.                                              *)
(***************************************************************************)
UniqueKinds == {"element", "id", "pseudoElement"}

RepeatableKinds == {"class", "attr", "pseudoClass"}

RankOf(kind) ==
  CASE kind = "element" -> 1
    [] kind = "id" -> 2
    [] kind = "class" -> 3
    [] kind = "attr" -> 4
    [] kind = "pseudoClass" -> 5
    [] kind = "pseudoElement" -> 6

TokenOf(kind, value) ==
  CASE kind = "element" -> value
    [] kind = "id" -> "#" \o value
    [] kind = "class" -> "." \o value
    [] kind = "attr" -> "[" \o value \o "]"
    [] kind = "pseudoClass" -> ":" \o value
    [] kind = "pseudoElement" -> "::" \o value

RECURSIVE TokensOf(_)
TokensOf(parts) ==
  IF Len(parts) = 0 THEN ""
  ELSE TokenOf(Head(parts).selector, Head(parts).value) \o TokensOf(Tail(parts))

CountOf(parts, kind) == Cardinality({n \in 1..Len(parts) : parts[n].selector = kind})

\* The step is a call of a facade constructor / of a part-adder / of stringify.
FacadeStep == call'.on = "builder" /\ call'.method \in Kinds

AdderStep == call'.on = "Selector" /\ call'.method \in Kinds

\* The parts the receiver of a part-adder or stringify call held before the call.
Before == heap[call'.this].selectorsStorage

After == heap'[call'.this].selectorsStorage

\* The call keeps the ranks non-decreasing and the unique kinds unique.
RespectsRules(parts, kind) ==
  /\ \A n \in 1..Len(parts) : RankOf(parts[n].selector) <= RankOf(kind)
  /\ kind \in UniqueKinds => CountOf(parts, kind) = 0

\* C1: a facade constructor stores exactly its part; a part-adder call that
\* keeps ranks non-decreasing and element, id, pseudoElement unique succeeds
\* and stores its part last; stringify() of a Selector returns the tokens of
\* the stored parts, in call order, without separators.
C1_RuleAbidingChainRenders ==
  [][/\ FacadeStep =>
          /\ ret'.type = "object"
          /\ heap'[ret'.ref] = [cls |-> "Selector",
                                selectorsStorage |-> <<Part(call'.method, call'.args[1])>>]
     /\ (AdderStep /\ RespectsRules(Before, call'.method)) =>
          /\ ret' = Returned("object", call'.this, "")
          /\ After = Append(Before, Part(call'.method, call'.args[1]))
     /\ (call'.on = "Selector" /\ call'.method = "stringify") =>
          ret' = Returned("string", 0, TokensOf(Before))]_vars

C1_Witness ==
  /\ call.on = "Selector" /\ call.method = "stringify"
  /\ Len(heap[call.this].selectorsStorage) = 3
  /\ ret.str = "#a.b.a"

\* C2: every Selector holds at most one element part, at most one id part and
\* at most one pseudoElement part.
C2_UniqueKindsAtMostOnce ==
  \A i \in SelectorRefs : \A kind \in UniqueKinds :
    CountOf(heap[i].selectorsStorage, kind) <= 1

C2_Witness ==
  /\ call.on = "Selector" /\ call.method = "pseudoElement"
  /\ ret = Thrown(DuplicateError)
  /\ CountOf(heap[call.this].selectorsStorage, "pseudoElement") = 1

\* C3: the parts of every Selector are stored in non-decreasing rank.
C3_StoredInRankOrder ==
  \A i \in SelectorRefs :
    LET parts == heap[i].selectorsStorage
    IN  \A m \in 1..Len(parts) : \A n \in m..Len(parts) :
          RankOf(parts[m].selector) <= RankOf(parts[n].selector)

C3_Witness ==
  /\ call.on = "Selector" /\ call.method = "class"
  /\ ret = Thrown(OrderError)
  /\ Len(heap[call.this].selectorsStorage) = 2

\* C4: element(), id() or pseudoElement() on a Selector that already holds a
\* part of that kind throws the duplicate error; class(), attr() and
\* pseudoClass() never throw it.
C4_DuplicateError ==
  [][AdderStep =>
       /\ (call'.method \in UniqueKinds /\ CountOf(Before, call'.method) > 0)
            => ret' = Thrown(DuplicateError)
       /\ call'.method \in RepeatableKinds => ret'.str # DuplicateError]_vars

C4_Witness ==
  /\ call.on = "Selector" /\ call.method = "id"
  /\ ret = Thrown(DuplicateError)
  /\ heap[call.this].selectorsStorage[1].selector = "id"
  /\ Len(heap[call.this].selectorsStorage) = 1

\* C5 as claimed: a part-adder call whose kind ranks below the most recently
\* appended part throws the out-of-order error.
C5_Claimed ==
  [][(AdderStep /\ RankOf(call'.method) < RankOf(Before[Len(Before)].selector))
       => ret' = Thrown(OrderError)]_vars

\* C5 as amended: such a call is always rejected; the error is the
\* out-of-order error unless the kind is element or id and a part of that kind
\* is already stored, when it is the duplicate error.
C5_LowerRankRejected ==
  [][(AdderStep /\ RankOf(call'.method) < RankOf(Before[Len(Before)].selector))
       => ret' = IF call'.method \in {"element", "id"} /\ CountOf(Before, call'.method) > 0
                 THEN Thrown(DuplicateError)
                 ELSE Thrown(OrderError)]_vars

C5_Witness ==
  /\ call.on = "Selector" /\ call.method = "id"
  /\ ret = Thrown(DuplicateError)
  /\ LET parts == heap[call.this].selectorsStorage
     IN  RankOf(parts[Len(parts)].selector) > RankOf("id")

-----------------------------------------------------------------------------
CombinedRefs == {i \in Refs : heap[i].cls = "Combined"}

CombineStep == call'.on = "builder" /\ call'.method = "combine"

StringifyStep == call'.method = "stringify"

\* The part-adder call of the step returned (it appended its part).
AdderSucceeded == AdderStep /\ ret'.type = "object"

\* The Selectors an object renders: itself, or those under its two children.
RECURSIVE Leaves(_, _)
Leaves(h, i) ==
  IF h[i].cls = "Selector" THEN {i}
  ELSE Leaves(h, h[i].selector1) \cup Leaves(h, h[i].selector2)

\* C6: combine returns a new object holding its three arguments, whose
\* stringify() returns left.stringify() + ' ' + c + ' ' + right.stringify();
\* for combine(A, '+', combine(B, '~', C)) that is
\* A.stringify() + ' + ' + B.stringify() + ' ~ ' + C.stringify().
C6_CombineRenders ==
  [][/\ CombineStep =>
          /\ ret' = Returned("object", Len(heap) + 1, "")
          /\ heap'[ret'.ref] = [cls |-> "Combined", selector1 |-> call'.args[1],
                                combinator |-> call'.args[2], selector2 |-> call'.args[3]]
     /\ (StringifyStep /\ call'.on = "Combined") =>
          LET this == heap[call'.this]
              inner == heap[this.selector2]
          IN  /\ ret'.str = Stringify(heap, this.selector1) \o " " \o this.combinator
                              \o " " \o Stringify(heap, this.selector2)
              /\ (this.combinator = "+" /\ inner.cls = "Combined" /\ inner.combinator = "~") =>
                   ret'.str = Stringify(heap, this.selector1) \o " + "
                                \o Stringify(heap, inner.selector1) \o " ~ "
                                \o Stringify(heap, inner.selector2)]_vars

C6_Witness ==
  /\ call.on = "Combined" /\ call.method = "stringify"
  /\ heap[heap[call.this].selector2].cls = "Combined"
  /\ ret.str = ".b + .b ~ .b"

\* C7 as claimed: the string a combined object renders never changes, whatever
\* calls are made later.
C7_Claimed ==
  [][\A j \in CombinedRefs : Stringify(heap', j) = Stringify(heap, j)]_vars

\* C7 as amended: a combined object never changes after its creation, and the
\* string it renders is left unchanged by every call other than a successful
\* part-adder call on a Selector it renders.
C7_CombinedStableUnlessLeafGrows ==
  [][\A j \in CombinedRefs :
       /\ heap'[j] = heap[j]
       /\ ~(AdderSucceeded /\ call'.this \in Leaves(heap, j))
            => Stringify(heap', j) = Stringify(heap, j)]_vars

C7_Witness ==
  /\ call.on = "Selector" /\ call.method \in Kinds
  /\ ret.type = "error"
  /\ \E j \in CombinedRefs : call.this \in Leaves(heap, j)

\* C8: combine, and stringify() of a combined object, leave the parts of every
\* Selector as they were, whatever the nesting and also when one Selector is
\* both arguments.
C8_CombineLeavesSelectorsAlone ==
  [][(CombineStep \/ (StringifyStep /\ call'.on = "Combined")) =>
       \A i \in SelectorRefs : heap'[i] = heap[i]]_vars

C8_Witness ==
  /\ call.on = "Combined" /\ call.method = "stringify"
  /\ LET this == heap[call.this]
     IN  /\ heap[this.selector1].cls = "Selector"
         /\ heap[this.selector2].cls = "Combined"
         /\ heap[this.selector2].selector1 = this.selector1
         /\ heap[this.selector2].selector2 = this.selector1

\* C9: stringify() changes no object and returns the string a second call
\* returns; a call that is not a part-adder call changes the rendering of no
\* existing object, so the calls in between do not matter.
C9_StringifyIdempotent ==
  [][/\ StringifyStep =>
          /\ heap' = heap
          /\ ret' = Returned("string", 0, Stringify(heap', call'.this))
     /\ (StringifyStep /\ call.method = "stringify" /\ call.this = call'.this) => ret' = ret
     /\ ~AdderStep => \A i \in Refs : Stringify(heap', i) = Stringify(heap, i)]_vars

C9_Witness ==
  /\ call.on = "Combined" /\ call.method = "stringify"
  /\ ret.str = "a ~ .b"

\* C10: a part-adder call throws exactly when its kind is an element, id or
\* pseudoElement already stored or ranks below the last stored part, and then
\* one of the two check errors; no facade constructor, combine or stringify
\* call throws.
ViolatesUniqueness(parts, kind) == kind \in UniqueKinds /\ CountOf(parts, kind) > 0

ViolatesOrdering(parts, kind) ==
  Len(parts) > 0 /\ RankOf(kind) < RankOf(parts[Len(parts)].selector)

C10_OnlyCheckFails ==
  [][/\ AdderStep =>
          /\ ret'.type = "error" <=>
               (ViolatesUniqueness(Before, call'.method) \/ ViolatesOrdering(Before, call'.method))
          /\ ret'.type = "error" => ret'.str \in {DuplicateError, OrderError}
     /\ ~AdderStep => ret'.type # "error"]_vars

C10_Witness ==
  /\ call.on = "Selector" /\ call.method = "pseudoClass"
  /\ ret = Thrown(OrderError)
  /\ \E j \in CombinedRefs : call.this \in Leaves(heap, j)

-----------------------------------------------------------------------------
\* C11: a facade constructor returns a Selector that did not exist before and
\* changes no existing object; a part-adder call, accepted or rejected,
\* leaves the parts and the rendering of every other Selector as they were.
C11_SelectorsShareNothing ==
  [][/\ FacadeStep =>
          /\ ret'.ref \notin Refs
          /\ Len(heap') = Len(heap) + 1
          /\ \A i \in Refs : heap'[i] = heap[i]
     /\ AdderStep =>
          \A i \in SelectorRefs \ {call'.this} :
            /\ heap'[i].selectorsStorage = heap[i].selectorsStorage
            /\ Stringify(heap', i) = Stringify(heap, i)]_vars

C11_Witness ==
  /\ call.on = "Selector" /\ call.method \in Kinds
  /\ ret.type = "object"
  /\ \E i \in SelectorRefs : i # call.this
  /\ Len(heap[call.this].selectorsStorage) = 2

\* C12: a part-adder call that throws stores nothing: the parts and the
\* rendering of its Selector are what they were before the call, and check
\* still accepts every kind that keeps the rules.
C12_RejectedCallStoresNothing ==
  [][(AdderStep /\ ret'.type = "error") =>
       /\ heap' = heap
       /\ After = Before
       /\ Stringify(heap', call'.this) = Stringify(heap, call'.this)
       /\ \A kind \in Kinds : RespectsRules(After, kind) => Check(After, kind) = "ok"]_vars

C12_Witness ==
  /\ call.on = "Selector" /\ call.method = "element"
  /\ ret = Thrown(OrderError)
  /\ heap[call.this].selectorsStorage = <<Part("pseudoClass", "b")>>

-----------------------------------------------------------------------------
\* C13: a part-adder call that breaks both the uniqueness rule and the
\* ordering rule throws the duplicate error, not the out-of-order error.
C13_UniquenessCheckedFirst ==
  [][(/\ AdderStep
      /\ ViolatesUniqueness(Before, call'.method)
      /\ ViolatesOrdering(Before, call'.method))
       => ret' = Thrown(DuplicateError)]_vars

C13_Witness ==
  /\ call.on = "Selector" /\ call.method = "element"
  /\ ret = Thrown(DuplicateError)
  /\ LET parts == heap[call.this].selectorsStorage
     IN  /\ Len(parts) = 2
         /\ parts[1].selector = "element"
         /\ parts[2].selector = "class"

\* C14: every Selector holds at least one part; right after a facade
\* constructor the new Selector holds exactly the part of the call; check
\* never fails for want of a last part.
C14_NeverEmpty ==
  /\ \A i \in SelectorRefs : Len(heap[i].selectorsStorage) >= 1
  /\ (call.on = "builder" /\ call.method \in Kinds) =>
       /\ ret.type = "object"
       /\ ret.ref = Len(heap)
       /\ heap[ret.ref].cls = "Selector"
       /\ heap[ret.ref].selectorsStorage = <<Part(call.method, call.args[1])>>
  /\ ret.str # TypeError

C14_Witness ==
  /\ call.on = "builder" /\ call.method = "pseudoElement"
  /\ Len(heap) = 3
  /\ heap[3].selectorsStorage = <<Part("pseudoElement", "a")>>

-----------------------------------------------------------------------------
\* The kind of the last part the receiver held before the call.
LastKind == Before[Len(Before)].selector

\* C15: class(), attr() or pseudoClass() on a Selector whose last part is of
\* that same kind succeeds and appends exactly one part at the end, at every
\* length; class() after attr or pseudoClass and attr() after pseudoClass
\* throw the out-of-order error.
C15_RepeatableKindsRepeat ==
  [][AdderStep =>
       /\ (call'.method \in RepeatableKinds /\ LastKind = call'.method) =>
            /\ ret' = Returned("object", call'.this, "")
            /\ After = Append(Before, Part(call'.method, call'.args[1]))
            /\ CountOf(After, call'.method) = CountOf(Before, call'.method) + 1
       /\ (\/ call'.method = "class" /\ LastKind \in {"attr", "pseudoClass"}
           \/ call'.method = "attr" /\ LastKind = "pseudoClass") =>
            /\ ret' = Thrown(OrderError)
            /\ After = Before]_vars

C15_Witness ==
  /\ call.on = "Selector" /\ call.method = "attr"
  /\ ret.type = "object"
  /\ heap[call.this].selectorsStorage =
       <<Part("attr", "a"), Part("attr", "b"), Part("attr", "a")>>

-----------------------------------------------------------------------------
\* Rendering the object at i ends without nesting deeper than fuel combined
\* objects. Defined on every heap, cyclic or not.
RECURSIVE EndsWithin(_, _, _)
EndsWithin(h, i, fuel) ==
  IF h[i].cls = "Selector" THEN TRUE
  ELSE /\ fuel > 0
       /\ EndsWithin(h, h[i].selector1, fuel - 1)
       /\ EndsWithin(h, h[i].selector2, fuel - 1)

\* C16: stringify() terminates on every expression: a combined object only
\* refers to objects created before it, so no expression contains itself and
\* the rendering recursion is no deeper than the number of objects; every
\* stringify() call has returned a string.
C16_StringifyTerminates ==
  /\ \A j \in CombinedRefs :
       /\ heap[j].selector1 \in 1..(j - 1)
       /\ heap[j].selector2 \in 1..(j - 1)
  /\ \A i \in Refs : EndsWithin(heap, i, Len(heap))
  /\ call.method = "stringify" => ret.type = "string"

C16_Witness ==
  /\ call.on = "Combined" /\ call.method = "stringify"
  /\ heap[call.this].selector1 \in CombinedRefs
  /\ heap[call.this].selector2 \in CombinedRefs
  /\ ret.str = ".a ~ .a + .a ~ .a"

-----------------------------------------------------------------------------
\* C17: in every Selector the last part has the highest rank of all stored
\* parts, so the ordering test of check, which looks at the last part only,
\* rejects a kind exactly when the kind ranks below some stored part, and
\* check accepts a kind not barred by uniqueness exactly when it ranks below
\* no stored part.
C17_LastPartSuffices ==
  \A i \in SelectorRefs :
    LET parts == heap[i].selectorsStorage
        lastElem == parts[Len(parts)].selector
    IN  /\ Len(parts) >= 1
        /\ \A n \in 1..Len(parts) : RankOf(parts[n].selector) <= RankOf(lastElem)
        /\ \A kind \in Kinds :
             /\ (indexOf(selectorsOrder, kind) < indexOf(selectorsOrder, lastElem))
                  <=> (\E n \in 1..Len(parts) : RankOf(kind) < RankOf(parts[n].selector))
             /\ ~ViolatesUniqueness(parts, kind) =>
                  (Check(parts, kind) = "ok"
                     <=> \A n \in 1..Len(parts) : RankOf(parts[n].selector) <= RankOf(kind))

C17_Witness ==
  \E i \in SelectorRefs :
    heap[i].selectorsStorage =
      <<Part("element", "a"), Part("attr", "b"), Part("pseudoElement", "a")>>

====
